---- MODULE Spec2Model ----
(***************************************************************************)
(* Model of the GB electricity market proxy (src/app.py): the in-memory    *)
(* cache guarded by one lock, the request handlers that consult it, the    *)
(* upstream fetch and the cache-key derivation.                            *)
(*                                                                         *)
(* Strings are sequences of characters.  A literal of the source that no   *)
(* request can supply in pieces (an endpoint prefix such as "generation")  *)
(* is one element; every separator and every character a request can       *)
(* supply is its own element, so that concatenation can collide exactly    *)
(* where the source's f-strings can.                                       *)
(***************************************************************************)
EXTENDS Integers, Sequences, FiniteSets, TLC

VARIABLES
  cache,   \* _cache: key -> entry
  lock,    \* _cache_lock: the thread holding it, or Free
  now,     \* the last reading of time.time() by any thread
  th,      \* per request thread: where it is in its handler, and its locals
  nreq,    \* requests started so far
  ticks,   \* readings of the clock that found it advanced
  lastw,   \* history: per key, what the last completed cache_set was called
           \* with, what it read from the clock, and how many there were
  lim,     \* the run's limits: threads serving, requests, clock advances
           \* and their sizes, and the upstream outcomes tried; never changes
  calc     \* the handlers that only compute: what they were given and
           \* what they returned

vars == <<cache, lock, now, th, nreq, ticks, lastw, lim, calc>>

\* ------------------------------------------------------------------ bounds

Threads == {1, 2}

\* Records in one upstream generation snapshot.
MaxRecords == 2

\* Requests started in one behaviour of the model with a fair scheduler.
MaxLiveRequests == 2

\* Requests started in one behaviour: of the concurrent model (both threads
\* together), of the sequential model that tries every upstream outcome, of
\* the sequential model that lets the most time pass, and of the summary model.
MaxRequests == 2

MaxSeqRequests == 2

MaxTimeRequests == 2

MaxSumRequests == 1

\* Readings of the wall clock, in one behaviour, that find it advanced, in
\* the same four models.
MaxConcTicks == 0

MaxSeqTicks == 1

MaxTicks == 2

MaxSumTicks == 0

\* Longest request string (a date, a path) the key derivation is tried on,
\* and the most parameters of a raw passthrough request.
MaxLen == 2

MaxParams == 2

\* ------------------------------------------------------------------ config

TTL_generation == 600
TTL_demand == 600
TTL_price == 600
TTL_imbalance == 600
TTL_frequency == 60
TTL_default == 300
TTL_summary == 60
TTL_raw == 300

CACHE_TTL(ttl_key) ==
  CASE ttl_key = "generation" -> TTL_generation
    [] ttl_key = "demand" -> TTL_demand
    [] ttl_key = "price" -> TTL_price
    [] ttl_key = "imbalance" -> TTL_imbalance
    [] ttl_key = "frequency" -> TTL_frequency
    [] OTHER -> TTL_default

\* Between the readings of two requests the clock moves by a second, to one
\* second before the shortest TTL runs out, or by one of the TTLs.
TickSteps == {1, TTL_frequency - 1, TTL_frequency, TTL_raw, TTL_generation}

\* The advances tried by the model that tries every upstream outcome: a
\* second, and the shortest TTL.
SeqTickSteps == {1, TTL_frequency}

\* ------------------------------------------------------------------ strings

\* Characters a request can put into a parameter or a path.
Alphabet == {"1", ":"}

\* Code point order of the characters (ord("1") = 49 < ord(":") = 58).
CharOrd(c) == IF c = "1" THEN 49 ELSE 58

StrsOfLen(n) == [1..n -> Alphabet]

Strs(n) == UNION {StrsOfLen(i) : i \in 0..n}

\* today_str() and yesterday_str(): the clock of a behaviour stays within one day.
today_str == <<"1">>

yesterday_str == <<"0">>

RECURSIVE StrLess(_, _)
\* Python's str <: lexicographic by code point, a proper prefix first.
StrLess(a, b) ==
  IF a = <<>> THEN b # <<>>
  ELSE IF b = <<>> THEN FALSE
  ELSE IF Head(a) = Head(b) THEN StrLess(Tail(a), Tail(b))
  ELSE CharOrd(Head(a)) < CharOrd(Head(b))

\* Python's tuple <: on (name, value) pairs.
PairLess(p, q) == IF p[1] = q[1] THEN StrLess(p[2], q[2]) ELSE StrLess(p[1], q[1])

RECURSIVE Insert(_, _)
Insert(p, s) ==
  IF s = <<>> THEN <<p>>
  ELSE IF PairLess(Head(s), p) THEN <<Head(s)>> \o Insert(p, Tail(s))
  ELSE <<p>> \o s

\* The items in the order the request sent them.
Unsorted(s) == s

RECURSIVE sorted(_)
\* sorted(params.items()): ascending, whatever order the request gave.
sorted(s) == IF s = <<>> THEN <<>> ELSE Insert(Head(s), sorted(Tail(s)))

RECURSIVE ReprItems(_)
\* The inside of repr() of a list of pairs of strings: ('k', 'v'), ('k', 'v').
ReprItems(s) ==
  IF s = <<>> THEN <<>>
  ELSE <<"(", "'">> \o Head(s)[1] \o <<"'", ",", " ", "'">> \o Head(s)[2] \o <<"'", ")">>
       \o (IF Tail(s) = <<>> THEN <<>> ELSE <<",", " ">> \o ReprItems(Tail(s)))

\* str() of a list, as the f-string of the raw key formats it.
Repr(s) == <<"[">> \o ReprItems(s) \o <<"]">>

\* request.args: the (name, value) pairs of the query string.  Named
\* parameters are a set of pairs with distinct names.
HasArg(args, name) == \E p \in args : p[1] = name

\* request.args.get(name, default)
ArgGet(args, name, default) ==
  IF HasArg(args, name) THEN (CHOOSE p \in args : p[1] = name)[2] ELSE default

\* ------------------------------------------------------------------ cache keys

ProxyEndpoints == {"generation", "demand", "price", "imbalance", "frequency"}

DerivedEndpoints == {"generation_latest", "fuel_mix_latest"}

FetchEndpoints == ProxyEndpoints \cup DerivedEndpoints \cup {"raw", "summary"}

\* cache_key_fn of each proxy_route, and the fixed keys of the other handlers.
CacheKey(ep, args, path, params) ==
  CASE ep = "generation" ->
         <<"generation", ":">> \o ArgGet(args, "date", today_str)
           \o <<":">> \o ArgGet(args, "date_from", yesterday_str)
    [] ep = "demand" -> <<"demand", ":">> \o ArgGet(args, "date", today_str)
    [] ep = "price" -> <<"price", ":">> \o ArgGet(args, "date", today_str)
    [] ep = "imbalance" -> <<"imbalance", ":">> \o ArgGet(args, "date", today_str)
    [] ep = "frequency" -> <<"frequency", ":", "latest">>
    [] ep = "generation_latest" -> <<"generation_latest">>
    [] ep = "fuel_mix_latest" -> <<"fuel_mix_latest">>
    [] ep = "summary" -> <<"summary">>
    [] ep = "raw" -> <<"raw", ":">> \o path \o <<":">> \o Repr(sorted(params))
    [] OTHER -> <<>>

\* ttl_key of each proxy_route and the TTL the other handlers pass to cache_set.
EndpointTTL(ep) ==
  CASE ep \in ProxyEndpoints -> CACHE_TTL(ep)
    [] ep \in DerivedEndpoints -> CACHE_TTL("generation")
    [] ep = "summary" -> TTL_summary
    [] ep = "raw" -> TTL_raw
    [] OTHER -> 0

\* ------------------------------------------------------------------ values

\* What resp.json() can be: an object with well-formed records, an object
\* whose data list is empty or missing, the empty object, an object whose
\* records lack the settlementPeriod field, and a body that is no object
\* (a JSON array).
BodyKinds == {"records", "nodata", "emptyobj", "malformed", "nonobj"}

\* What a handler that stores the body as it came can tell of it: a
\* non-empty object, the empty object, or no object.
BodyShape(out) == IF out \in {"records", "nodata", "malformed"} THEN "object" ELSE out

\* fetch_elexon: raise_for_status fails, requests.get fails, or a body.
FetchOutcomes == {"http", "net"} \cup BodyKinds

\* The _errors map of a value that has none.
NoErrors == [k \in {} |-> "none"]

\* A JSON value.  id tells the request that produced it; fields are the keys
\* of a summary result and errors is its _errors map (name -> what was caught).
Value(kind, id, fields, errors) ==
  [kind |-> kind, id |-> id, fields |-> fields, errors |-> errors]

None == Value("none", 0, {}, NoErrors)

\* Python truthiness of a handler's value: None and {} are falsy.
Truthy(v) == v.kind \notin {"none", "emptyobj"}

\* Whether {**v, ...} works: v is a mapping.
IsDict(v) == v.kind \notin {"none", "nonobj"}

\* raw.get("data", []) is non-empty.
HasData(kind) == kind \in {"records", "malformed"}

\* ------------------------------------------------------------------ responses

NoStats == [k \in {} |-> 0]

Response(status, flag, body, key) ==
  [status |-> status, cache |-> flag, body |-> body, key |-> key,
   cleared |-> <<>>, found |-> "na", count |-> -1, total_keys |-> -1,
   stats |-> NoStats]

NoResponse == Response(0, "none", None, <<>>)

\* ------------------------------------------------------------------ state

InitThread ==
  [pc |-> "idle", ep |-> "none", id |-> 0, args |-> {}, path |-> <<>>,
   params |-> <<>>, key |-> <<>>, cached |-> None, out |-> "none",
   data |-> None, ttl |-> 0, stored |-> 0, idx |-> 0, fields |-> {},
   errors |-> NoErrors, subs |-> <<>>, resp |-> NoResponse]

Free == 0

EmptyCache == [k \in {} |-> 0]

\* The state after the module is loaded, but for the run's limits.
\* No computation asked for yet.
NoCalc == [kind |-> "none"]

\* The process right after import: empty cache, lock free, nobody serving.
Idle ==
  /\ cache = EmptyCache
  /\ lock = Free
  /\ now = 0
  /\ th = [t \in Threads |-> InitThread]
  /\ nreq = 0
  /\ ticks = 0
  /\ lastw = EmptyCache

Start == Idle /\ calc = NoCalc

\* Two threads serving concurrently; upstream either fails or answers with
\* well-formed records.
Init ==
  /\ Start
  /\ lim = [threads |-> Threads, requests |-> MaxRequests, ticks |-> MaxConcTicks,
            outs |-> {"net", "records"}, sumouts |-> {"records"},
            steps |-> TickSteps]

Entry(data, stored, expires) == [data |-> data, stored |-> stored, expires |-> expires]

\* An update in place that keeps the old entry's value.
CachePutMerging(c, key, e) ==
  [k \in DOMAIN c \cup {key} |->
     IF k = key
     THEN (IF key \in DOMAIN c THEN [e EXCEPT !.data = c[key].data] ELSE e)
     ELSE c[k]]

\* _cache[key] = entry
CachePut(c, key, e) == [k \in DOMAIN c \cup {key} |-> IF k = key THEN e ELSE c[k]]

\* _cache.pop(key, None)
CachePop(c, key) == [k \in DOMAIN c \ {key} |-> c[k]]

\* time.time() < entry["expires"]
\* An entry that never goes stale.
IsFreshAlways(e, t) == TRUE

IsFresh(e, t) == t < e.expires

\* What cache_get returns at clock reading t.
CacheLookup(c, key, t) ==
  IF key \in DOMAIN c /\ IsFresh(c[key], t) THEN c[key].data ELSE None

\* The dict cache_set builds: "stored" from its first reading of the clock,
\* "expires" from its second.
NewEntry(data, t1, t2, ttl) == Entry(data, t1, t2 + ttl)

\* History of cache_set(key, data, ttl): its arguments, its two readings of
\* the clock, and the number of cache_set calls on the key so far.
Remember(h, key, data, ttl, t1, t2) ==
  [k \in DOMAIN h \cup {key} |->
     IF k = key
     THEN [data |-> data, ttl |-> ttl, stored |-> t1, read |-> t2,
           n |-> IF key \in DOMAIN h THEN h[key].n + 1 ELSE 1]
     ELSE h[k]]

Goto(t, pc) == th' = [th EXCEPT ![t].pc = pc]

Respond(t, r) == [th[t] EXCEPT !.pc = "done", !.resp = r]

\* time.time(): what a reading of the clock can return, now being the last
\* reading of any thread.  Time passes between any two readings.
Readings == {now} \cup (IF ticks < lim.ticks THEN {now + d : d \in lim.steps} ELSE {})

\* time.time() inside cache_set: the fetch that precedes it ends within its
\* timeout and the dict literal reads the clock twice in a row, so these
\* readings are the last one or a second later.
ShortReadings == {now} \cup (IF ticks < lim.ticks THEN {now + 1} ELSE {})

\* The clock after a reading of n.
Advance(n) == now' = n /\ ticks' = (IF n = now THEN ticks ELSE ticks + 1)

\* ------------------------------------------------------------------ cache_get

\* with _cache_lock: (entering cache_get)
GetAcquire(t) ==
  /\ th[t].pc = "get_lock"
  /\ lock = Free
  /\ lock' = t
  /\ Goto(t, "get_cs")
  /\ UNCHANGED <<cache, now, nreq, ticks, lastw, lim, calc>>

\* `if cached is not None` of proxy_route, `if cached` of the other handlers.
IsHit(ep, cached) == IF ep \in ProxyEndpoints THEN cached # None ELSE Truthy(cached)

\* The _key annotation: proxy_route responses carry it, the others do not.
KeyNote(ep, key) == IF ep \in ProxyEndpoints THEN key ELSE <<>>

\* jsonify({**cached, "_cache": "hit"}); unpacking a value that is no mapping
\* raises TypeError outside every try block, which Flask answers with 500.
HitResponse(ep, key, cached) ==
  IF IsDict(cached) THEN Response(200, "hit", cached, KeyNote(ep, key))
  ELSE Response(500, "none", None, <<>>)

\* The handler from the return of cache_get up to its first fetch.
AfterGet(r, cached) ==
  IF IsHit(r.ep, cached)
  THEN [r EXCEPT !.pc = "done", !.cached = cached,
                 !.resp = HitResponse(r.ep, r.key, cached)]
  ELSE IF r.ep = "summary"
  THEN [r EXCEPT !.pc = "sum_fetch", !.cached = cached, !.idx = 1,
                 !.fields = {"settlement_period"}]
  ELSE [r EXCEPT !.pc = "fetch", !.cached = cached]

\* The lock once cache_get has returned to the handler r of thread t: the
\* with block ends inside cache_get, before the handler goes on.
\* A handler that goes on to its fetch still inside the `with` block.
LockKeptForFetch(t, r) == IF r.pc \in {"fetch", "sum_fetch"} THEN t ELSE Free

LockAfterGet(t, r) == Free

\* The body of cache_get under the lock, the release, and the caller's test.
GetBody(t) ==
  /\ th[t].pc = "get_cs"
  /\ lock = t
  /\ \E n \in Readings :
       /\ Advance(n)
       /\ th' = [th EXCEPT ![t] = AfterGet(th[t], CacheLookup(cache, th[t].key, n))]
  /\ lock' = LockAfterGet(t, th'[t])
  /\ UNCHANGED <<cache, nreq, lastw, lim, calc>>

\* ------------------------------------------------------------------ fetch

ErrorResponse(status) == Response(status, "none", None, <<>>)

\* What a handler does with the outcome of its one fetch_elexon call: the
\* status of the error response it returns, or 0 when it goes on to cache_set.
FetchStatus(ep, out) ==
  CASE ep \in ProxyEndpoints ->
         (IF out = "http" THEN 502 ELSE IF out = "net" THEN 503 ELSE 0)
    [] ep = "raw" ->
         (IF out = "http" THEN 502 ELSE IF out = "net" THEN 503 ELSE 0)
    [] ep \in DerivedEndpoints ->
         (IF out \in {"http", "net"} THEN 503
          ELSE IF out = "nonobj" THEN 503
          ELSE IF ~HasData(out) THEN 404
          ELSE IF out = "malformed" THEN 503
          ELSE 0)
    [] OTHER -> 0

\* The value the handler passes to cache_set: the body as fetched, or the
\* result derived from it.
FetchData(ep, out, id) ==
  IF ep \in DerivedEndpoints THEN Value("result", id, {}, NoErrors)
  ELSE Value(BodyShape(out), id, {}, NoErrors)

\* fetch_elexon and the handler's code up to cache_set or the error response.
Fetch(t) ==
  /\ th[t].pc = "fetch"
  /\ \E out \in lim.outs :
       th' = [th EXCEPT ![t] =
                IF FetchStatus(th[t].ep, out) # 0
                THEN [Respond(t, ErrorResponse(FetchStatus(th[t].ep, out))) EXCEPT !.out = out]
                ELSE [th[t] EXCEPT !.pc = "set_lock", !.out = out,
                                   !.data = FetchData(th[t].ep, out, th[t].id),
                                   !.ttl = EndpointTTL(th[t].ep)]]
  /\ UNCHANGED <<cache, lock, now, nreq, ticks, lastw, lim, calc>>

\* ------------------------------------------------------------------ cache_set

\* with _cache_lock: and the first time.time() of the dict literal.
SetAcquire(t) ==
  /\ th[t].pc = "set_lock"
  /\ lock = Free
  /\ lock' = t
  /\ \E n \in ShortReadings :
       /\ Advance(n)
       /\ th' = [th EXCEPT ![t].pc = "set_cs", ![t].stored = n]
  /\ UNCHANGED <<cache, nreq, lastw, lim, calc>>

\* jsonify({**data, "_cache": "miss"}) after cache_set.  A body that is no
\* mapping raises TypeError: proxy_route does not catch it (500), the raw
\* passthrough catches it as Exception (503).
MissResponse(ep, key, data) ==
  IF IsDict(data) THEN Response(200, "miss", data, KeyNote(ep, key))
  ELSE IF ep = "raw" THEN ErrorResponse(503)
  ELSE ErrorResponse(500)

\* The second time.time(), the assignment into _cache, the release, and the
\* handler's return.
SetStore(t) ==
  /\ th[t].pc = "set_cs"
  /\ lock = t
  /\ \E n \in ShortReadings :
       /\ Advance(n)
       /\ cache' = CachePut(cache, th[t].key,
                            NewEntry(th[t].data, th[t].stored, n, th[t].ttl))
       /\ lastw' = Remember(lastw, th[t].key, th[t].data, th[t].ttl, th[t].stored, n)
  /\ lock' = Free
  /\ th' = [th EXCEPT ![t] = Respond(t, MissResponse(th[t].ep, th[t].key, th[t].data))]
  /\ UNCHANGED <<nreq, lim, calc>>

\* ------------------------------------------------------------------ summary

\* The five try blocks of summary(), in the order the code runs them.
SummaryOps == <<"generation", "demand", "price", "imbalance", "frequency">>

\* Whether the try block of op raises on this outcome of its fetch.  A failed
\* fetch raises; a body that is no object has no .get; records without
\* settlementPeriod raise KeyError where the block indexes it, which the
\* frequency block never does.
SubRaises(op, out) ==
  \/ out \in {"http", "net", "nonobj"}
  \/ out = "malformed" /\ op # "frequency"

\* str(e) as recorded in errors; what the message says is left open.
SubMessage(out) == "str(e)"

\* Whether the block reaches result[op] = ...: `if data:` holds and nothing raised.
SubYields(op, out) == HasData(out) /\ ~SubRaises(op, out)

\* errors[op] = str(e)
AddError(errors, op, msg) ==
  [k \in DOMAIN errors \cup {op} |-> IF k = op THEN msg ELSE errors[k]]

\* What became of a sub-operation, in the terms of the summary's contract:
\* it succeeded, its upstream fetch failed, its data was missing, or its
\* body or records were malformed.
OutcomeClass(out) ==
  CASE out = "records" -> "success"
    [] out \in {"http", "net"} -> "upstream"
    [] out \in {"nodata", "emptyobj"} -> "missing"
    [] OTHER -> "malformed"

\* One try block: the new result keys and errors map.
SubFields(fields, op, out) == IF SubYields(op, out) THEN fields \cup {op} ELSE fields

SubErrors(errors, op, out) ==
  IF SubRaises(op, out) THEN AddError(errors, op, SubMessage(out)) ELSE errors

\* A result that never gets the errors map attached.
SummaryResultBare(id, fields, errors) == Value("summary", id, fields, errors)

\* `if errors: result["_errors"] = errors`
SummaryResult(id, fields, errors) ==
  Value("summary", id,
        IF DOMAIN errors # {} THEN fields \cup {"_errors"} ELSE fields, errors)

\* One try block of summary(): its fetch and what it makes of the outcome;
\* after the fifth, the result is complete and goes to cache_set.
SumFetch(t) ==
  /\ th[t].pc = "sum_fetch"
  /\ \E out \in lim.sumouts :
       LET op == SummaryOps[th[t].idx]
           f == SubFields(th[t].fields, op, out)
           e == SubErrors(th[t].errors, op, out)
       IN th' = [th EXCEPT ![t] =
                   IF th[t].idx < Len(SummaryOps)
                   THEN [th[t] EXCEPT !.idx = @ + 1, !.fields = f, !.errors = e,
                                      !.subs = Append(@, OutcomeClass(out))]
                   ELSE [th[t] EXCEPT !.pc = "set_lock", !.fields = f, !.errors = e,
                                      !.subs = Append(@, OutcomeClass(out)),
                                      !.data = SummaryResult(th[t].id, f, e),
                                      !.ttl = EndpointTTL("summary")]]
  /\ UNCHANGED <<cache, lock, now, nreq, ticks, lastw, lim, calc>>

\* ------------------------------------------------------------------ cache/stats

StatsAcquire(t) ==
  /\ th[t].pc = "stats_lock"
  /\ lock = Free
  /\ lock' = t
  /\ Goto(t, "stats_cs")
  /\ UNCHANGED <<cache, now, nreq, ticks, lastw, lim, calc>>

Max(a, b) == IF a >= b THEN a ELSE b

\* A snapshot that leaves out what has expired.
StatsOfUnexpired(c, t) ==
  [k \in {j \in DOMAIN c : t < c[j].expires} |->
     [age_seconds |-> t - c[k].stored,
      expires_in |-> c[k].expires - t,
      cached_at |-> c[k].stored]]

\* The mapping cache_stats builds at clock reading t.
StatsOf(c, t) ==
  [k \in DOMAIN c |->
     [age_seconds |-> t - c[k].stored,
      expires_in |-> Max(0, c[k].expires - t),
      cached_at |-> c[k].stored]]

\* The body of cache_stats and the release.
StatsBody(t) ==
  /\ th[t].pc = "stats_cs"
  /\ lock = t
  /\ lock' = Free
  /\ \E n \in Readings :
       /\ Advance(n)
       /\ th' = [th EXCEPT ![t].pc = "stats_len",
                           ![t].resp = [NoResponse EXCEPT !.stats = StatsOf(cache, n)]]
  /\ UNCHANGED <<cache, nreq, lastw, lim, calc>>

\* len(_cache), read by api_cache_stats after cache_stats has returned.
StatsLen(t) ==
  /\ th[t].pc = "stats_len"
  /\ th' = [th EXCEPT ![t] =
              Respond(t, [th[t].resp EXCEPT !.status = 200,
                                            !.total_keys = Cardinality(DOMAIN cache)])]
  /\ UNCHANGED <<cache, lock, now, nreq, ticks, lastw, lim, calc>>

\* ------------------------------------------------------------------ cache/clear

ClearAcquire(t) ==
  /\ th[t].pc = "clear_lock"
  /\ lock = Free
  /\ lock' = t
  /\ Goto(t, "clear_cs")
  /\ UNCHANGED <<cache, now, nreq, ticks, lastw, lim, calc>>

\* `if key:` of api_cache_clear: the parameter is there and not empty.
ClearIsKeyed(args) == HasArg(args, "key") /\ ArgGet(args, "key", <<>>) # <<>>

\* _cache after the body of api_cache_clear.
ClearedCache(c, args) ==
  IF ClearIsKeyed(args) THEN CachePop(c, ArgGet(args, "key", <<>>)) ELSE EmptyCache

\* The response of api_cache_clear.
ClearResponse(c, args) ==
  IF ClearIsKeyed(args)
  THEN [NoResponse EXCEPT !.status = 200,
                          !.cleared = ArgGet(args, "key", <<>>),
                          !.found = IF ArgGet(args, "key", <<>>) \in DOMAIN c
                                    THEN "true" ELSE "false"]
  ELSE [NoResponse EXCEPT !.status = 200, !.cleared = <<"all">>,
                          !.count = Cardinality(DOMAIN c)]

\* A keyed return that leaves the critical section without releasing.
LockKeptOnKeyedReturn(t, args) == IF ClearIsKeyed(args) THEN t ELSE Free

\* The lock when api_cache_clear leaves its `with` block, by the return
\* inside it or by falling out of it.
LockAfterClear(t, args) == Free

\* The body of api_cache_clear under the lock; both returns release it.
ClearBody(t) ==
  /\ th[t].pc = "clear_cs"
  /\ lock = t
  /\ lock' = LockAfterClear(t, th[t].args)
  /\ cache' = ClearedCache(cache, th[t].args)
  /\ th' = [th EXCEPT ![t] = Respond(t, ClearResponse(cache, th[t].args))]
  /\ UNCHANGED <<now, nreq, ticks, lastw, lim, calc>>

\* ------------------------------------------------------------------ requests

CanStart(t) == th[t].pc \in {"idle", "done"} /\ nreq < lim.requests

NewRequest(ep, id, args, path, params) ==
  [InitThread EXCEPT !.ep = ep, !.id = id, !.args = args, !.path = path,
                     !.params = params,
                     !.key = CacheKey(ep, args, path, params)]

\* The path and parameters of the raw passthrough requests of the main model.
RawPath == <<"1">>

\* A request to one of the fetching endpoints arrives: the handler derives
\* its cache key and calls cache_get.
StartFetch(t) ==
  /\ CanStart(t)
  /\ \E ep \in FetchEndpoints :
       th' = [th EXCEPT ![t] =
                [NewRequest(ep, nreq + 1, {},
                            IF ep = "raw" THEN RawPath ELSE <<>>, <<>>)
                   EXCEPT !.pc = "get_lock"]]
  /\ nreq' = nreq + 1
  /\ UNCHANGED <<cache, lock, now, ticks, lastw, lim, calc>>

\* GET /api/cache/stats arrives.
StartStats(t) ==
  /\ CanStart(t)
  /\ th' = [th EXCEPT ![t] =
              [NewRequest("cache_stats", nreq + 1, {}, <<>>, <<>>)
                 EXCEPT !.pc = "stats_lock"]]
  /\ nreq' = nreq + 1
  /\ UNCHANGED <<cache, lock, now, ticks, lastw, lim, calc>>

\* The key parameters tried on cache/clear: none, the empty string, a key
\* no handler ever stores, and every key now in the store.
ClearArgs == {{}} \cup {{<<"key", k>>} : k \in DOMAIN cache \cup {<<>>, <<"1">>}}

\* POST /api/cache/clear arrives.
StartClear(t) ==
  /\ CanStart(t)
  /\ \E a \in ClearArgs :
       th' = [th EXCEPT ![t] =
                [NewRequest("cache_clear", nreq + 1, a, <<>>, <<>>)
                   EXCEPT !.pc = "clear_lock"]]
  /\ nreq' = nreq + 1
  /\ UNCHANGED <<cache, lock, now, ticks, lastw, lim, calc>>

Next ==
  \/ \E t \in lim.threads : StartFetch(t)
  \/ \E t \in lim.threads : StartStats(t)
  \/ \E t \in lim.threads : StartClear(t)
  \/ \E t \in lim.threads : GetAcquire(t)
  \/ \E t \in lim.threads : GetBody(t)
  \/ \E t \in lim.threads : Fetch(t)
  \/ \E t \in lim.threads : SumFetch(t)
  \/ \E t \in lim.threads : SetAcquire(t)
  \/ \E t \in lim.threads : SetStore(t)
  \/ \E t \in lim.threads : StatsAcquire(t)
  \/ \E t \in lim.threads : StatsBody(t)
  \/ \E t \in lim.threads : StatsLen(t)
  \/ \E t \in lim.threads : ClearAcquire(t)
  \/ \E t \in lim.threads : ClearBody(t)

\* Concurrent requests.
Spec == Init /\ [][Next]_vars

\* One thread serving requests one after the other, every upstream outcome tried.
InitSeq ==
  /\ Start
  /\ lim = [threads |-> {1}, requests |-> MaxSeqRequests, ticks |-> MaxSeqTicks,
            outs |-> FetchOutcomes, sumouts |-> {"records"},
            steps |-> SeqTickSteps]

SpecSeq == InitSeq /\ [][Next]_vars

\* One thread serving requests one after the other while more time passes.
InitTime ==
  /\ Start
  /\ lim = [threads |-> {1}, requests |-> MaxTimeRequests, ticks |-> MaxTicks,
            outs |-> {"net", "records"}, sumouts |-> {"records"},
            steps |-> TickSteps]

SpecTime == InitTime /\ [][Next]_vars

\* GET /api/summary arrives.
StartSummary(t) ==
  /\ CanStart(t)
  /\ th' = [th EXCEPT ![t] =
              [NewRequest("summary", nreq + 1, {}, <<>>, <<>>) EXCEPT !.pc = "get_lock"]]
  /\ nreq' = nreq + 1
  /\ UNCHANGED <<cache, lock, now, ticks, lastw, lim, calc>>

\* The summary handler alone, every outcome of each of its five fetches tried.
InitSummary ==
  /\ Start
  /\ lim = [threads |-> {1}, requests |-> MaxSumRequests, ticks |-> MaxSumTicks,
            outs |-> FetchOutcomes, sumouts |-> FetchOutcomes,
            steps |-> TickSteps]

NextSummary ==
  \/ \E t \in lim.threads : StartSummary(t)
  \/ \E t \in lim.threads : GetAcquire(t)
  \/ \E t \in lim.threads : GetBody(t)
  \/ \E t \in lim.threads : SumFetch(t)
  \/ \E t \in lim.threads : SetAcquire(t)
  \/ \E t \in lim.threads : SetStore(t)

SpecSummary == InitSummary /\ [][NextSummary]_vars

\* ------------------------------------------------------------------ key derivation

\* What the handler asks upstream for: the (path, params) its view function
\* returns, params being a dict, that is a set of (name, value) pairs.
UpstreamQuery(ep, args, path, params) ==
  CASE ep = "generation" ->
         <<"generation/outturn/halfHourly",
           {<<"settlementDateFrom", ArgGet(args, "date_from", yesterday_str)>>,
            <<"settlementDateTo", ArgGet(args, "date", today_str)>>}>>
    [] ep = "demand" ->
         <<"demand/outturn",
           {<<"settlementDateFrom", ArgGet(args, "date", today_str)>>,
            <<"settlementDateTo", ArgGet(args, "date", today_str)>>}>>
    [] ep = "price" ->
         <<"balancing/pricing/market-index",
           {<<"settlementDate", ArgGet(args, "date", today_str)>>}>>
    [] ep = "imbalance" ->
         <<"datasets/IMBALNGC",
           {<<"settlementDateFrom", ArgGet(args, "date", today_str)>>,
            <<"settlementDateTo", ArgGet(args, "date", today_str)>>}>>
    [] ep = "frequency" -> <<"datasets/FREQ", {}>>
    [] ep = "raw" -> <<path, {params[i] : i \in DOMAIN params}>>
    [] OTHER -> <<"", {}>>

\* A parameter a request may leave out or set to any string.
OptArg(name) == {{}} \cup {{<<name, v>>} : v \in Strs(MaxLen)}

\* The parameter sets a request to ep can carry.
KeyArgs(ep) ==
  CASE ep = "generation" -> {a \cup b : a \in OptArg("date"), b \in OptArg("date_from")}
    [] ep \in {"demand", "price", "imbalance"} -> OptArg("date")
    [] OTHER -> {{}}

\* The paths the raw route matches: <path:elexon_path> is never empty.
KeyPaths(ep) == IF ep = "raw" THEN Strs(MaxLen) \ {<<>>} ELSE {<<>>}

\* The query strings of raw requests, as request.args lists them: pairs of
\* one-character names and values, no name twice, in the order sent.
ParamPairs == StrsOfLen(1) \X StrsOfLen(1)

KeyParams(ep) ==
  IF ep = "raw"
  THEN {q \in UNION {[1..n -> ParamPairs] : n \in 0..MaxParams} :
          \A i \in DOMAIN q : \A j \in DOMAIN q : q[i][1] = q[j][1] => i = j}
  ELSE {<<>>}

KeyedEndpoints == ProxyEndpoints \cup {"raw"}

\* A request arrives and its handler derives the cache key.
KeyRequest(t) ==
  /\ th[t].pc = "idle"
  /\ \E ep \in KeyedEndpoints :
       \E a \in KeyArgs(ep) : \E p \in KeyPaths(ep) : \E q \in KeyParams(ep) :
         th' = [th EXCEPT ![t] = [NewRequest(ep, 0, a, p, q) EXCEPT !.pc = "keyed"]]
  /\ UNCHANGED <<cache, lock, now, nreq, ticks, lastw, lim, calc>>

InitKey ==
  /\ Start
  /\ lim = [threads |-> Threads, requests |-> 0, ticks |-> 0,
            outs |-> {}, sumouts |-> {},
            steps |-> TickSteps]

NextKey == \E t \in lim.threads : KeyRequest(t)

\* Two requests and the keys their handlers derive.
SpecKey == InitKey /\ [][NextKey]_vars

\* ------------------------------------------------------------------ settlement clock

\* datetime.now(timezone.utc), to the second: the day counted from the day
\* of the request, and the time of day.
Datetime(day, hour, minute, second) ==
  [day |-> day, hour |-> hour, minute |-> minute, second |-> second]

WallClocks == {Datetime(0, h, m, x) : h \in 0..23, m \in 0..59, x \in 0..59}

\* dt + timedelta(minutes = n)
AddMinutes(dt, n) ==
  LET total == dt.hour * 60 + dt.minute + n
  IN Datetime(dt.day + total \div (24 * 60), (total \div 60) % 24, total % 60,
              dt.second)

\* A next period past the last one of the day.
NextSpUnwrapped(sp) == sp + 1

\* (sp % 48) + 1
NextSp(sp) == (sp % 48) + 1

current_settlement_period(wall) ==
  LET minutes == wall.hour * 60 + wall.minute
      sp == minutes \div 30 + 1
      aligned == [wall EXCEPT !.minute = ((sp - 1) % 2) * 30, !.second = 0]
      sp_start == IF (sp - 1) * 30 >= 60
                  THEN [aligned EXCEPT !.hour = ((sp - 1) * 30) \div 60,
                                       !.minute = ((sp - 1) * 30) % 60]
                  ELSE aligned
      sp_end == AddMinutes(sp_start, 30)
  IN [settlement_date |-> wall.day,
      settlement_period |-> sp,
      period_start_utc |-> sp_start,
      period_end_utc |-> sp_end,
      periods_per_day |-> 48,
      next_sp |-> NextSp(sp)]

\* GET /api/settlement-period: the handler reads the clock and answers.
SettlementPeriod ==
  /\ calc.kind = "clock"
  /\ ~calc.done
  /\ calc' = [calc EXCEPT !.done = TRUE, !.out = current_settlement_period(calc.in)]
  /\ UNCHANGED <<cache, lock, now, th, nreq, ticks, lastw, lim>>

InitClock ==
  /\ Idle
  /\ lim = [threads |-> {}, requests |-> 0, ticks |-> 0, outs |-> {}, sumouts |-> {},
            steps |-> TickSteps]
  /\ \E w \in WallClocks : calc = [kind |-> "clock", in |-> w, done |-> FALSE, out |-> w]

NextClock == SettlementPeriod

\* One request for the settlement period at any second of the day.
SpecClock == InitClock /\ [][NextClock]_vars

\* ------------------------------------------------------------------ fuel mix

\* Outputs are counted in half megawatts, so that a JSON number with a
\* fractional part can occur: 1200 is 600 MW, 1 is 0.5 MW.
Half == 2

\* The outputs a record can carry under either name: an export, half a
\* megawatt, and the two of the documented example (a record with neither
\* name counts as 0).
Outputs == {-800, 1, 800, 1200}

\* fuelType of a record; "" stands for a record without one.
FuelTypes == {"", "WIND", "CCGT", "NUCLEAR"}

\* One record of the upstream dataset: its settlement period, its fuel type
\* and its output under "generation", under "quantity" or under neither.
FuelRecord(sp, ft, key, value) ==
  [settlementPeriod |-> sp, fuelType |-> ft, key |-> key, value |-> value]

FuelRecords ==
  {FuelRecord(sp, ft, k, v) :
     sp \in {1, 2}, ft \in FuelTypes, k \in {"generation", "quantity"}, v \in Outputs}
  \cup {FuelRecord(sp, ft, "none", 0) : sp \in {1, 2}, ft \in FuelTypes}

Snapshots == UNION {[1..n -> FuelRecords] : n \in 0..MaxRecords}

Abs(x) == IF x < 0 THEN -x ELSE x

\* round(num / den) to the nearest integer, ties to the even one, as
\* Python's round does; den # 0.
Round(num, den) ==
  LET n == IF den < 0 THEN -num ELSE num
      d == Abs(den)
      q == n \div d
      r == n % d
  IN IF 2 * r < d THEN q
     ELSE IF 2 * r > d THEN q + 1
     ELSE IF q % 2 = 0 THEN q ELSE q + 1

\* d.get("generation", d.get("quantity", 0)), in half megawatts
Output(d) == IF d.key = "none" THEN 0 ELSE d.value

\* x.get("generation", 0), the sort key of the fuels loop
GenerationKey(d) == IF d.key = "generation" THEN d.value ELSE 0

RECURSIVE SumSeq(_)
SumSeq(s) == IF s = <<>> THEN 0 ELSE Head(s) + SumSeq(Tail(s))

Map(f(_), s) == [i \in DOMAIN s |-> f(s[i])]

\* max(d["settlementPeriod"] for d in data); data is not empty
MaxSp(data) ==
  CHOOSE p \in {data[i].settlementPeriod : i \in DOMAIN data} :
    \A i \in DOMAIN data : data[i].settlementPeriod <= p

IsLatest(d, max_sp) == d.settlementPeriod = max_sp

\* [d for d in data if d["settlementPeriod"] == max_sp]
Latest(data) == LET p == MaxSp(data) IN SelectSeq(data, LAMBDA d : IsLatest(d, p))

\* sorted(latest, key=..., reverse=True): stable, largest key first.
RECURSIVE InsertDesc(_, _)
InsertDesc(d, s) ==
  IF s = <<>> THEN <<d>>
  ELSE IF GenerationKey(Head(s)) >= GenerationKey(d)
       THEN <<Head(s)>> \o InsertDesc(d, Tail(s))
       ELSE <<d>> \o s

RECURSIVE SortedDesc(_)
SortedDesc(s) ==
  IF s = <<>> THEN <<>>
  ELSE LET front == SubSeq(s, 1, Len(s) - 1)
       IN InsertDesc(s[Len(s)], SortedDesc(front))

\* fuel_labels.get(ft, ft)
FuelLabel(ft) ==
  CASE ft = "CCGT" -> "Gas CCGT"
    [] ft = "NUCLEAR" -> "Nuclear"
    [] ft = "WIND" -> "Wind"
    [] OTHER -> ft

renewable_types == {"WIND", "SOLAR", "NPSHYD", "HYDRO", "BIOMASS"}

low_carbon_types == renewable_types \cup {"NUCLEAR"}

\* round(mw / total * 100, 1) if total else 0, in tenths of a percent
Percentage(mw, total) == IF total # 0 THEN Round(mw * 100 * 10 * Half, total) ELSE 0

\* round(d.get("generation", d.get("quantity", 0)))
Mw(d) == Round(Output(d), Half)

\* A listing that keeps every record with a fuel type.
ListedWhateverOutput(d) == d.fuelType # ""

\* `if ft and mw > 0`
Listed(d) == d.fuelType # "" /\ Mw(d) > 0

FuelEntry(d, total) ==
  [fuel_type |-> d.fuelType, label |-> FuelLabel(d.fuelType), mw |-> Mw(d),
   percentage |-> Percentage(Mw(d), total)]

MwOf(f) == f.mw

\* The try block of fuel_mix_latest from `data = raw.get("data", [])` to
\* `result = {...}`: 404 on an empty dataset, else the derived result.
FuelMix(data) ==
  IF data = <<>> THEN [status |-> 404]
  ELSE
    LET max_sp == MaxSp(data)
        latest == Latest(data)
        total == SumSeq(Map(Output, latest))
        kept == SelectSeq(SortedDesc(latest), Listed)
        fuels == [i \in DOMAIN kept |-> FuelEntry(kept[i], total)]
        renewable_mw ==
          SumSeq(Map(MwOf, SelectSeq(fuels, LAMBDA f : f.fuel_type \in renewable_types)))
        low_carbon_mw ==
          SumSeq(Map(MwOf, SelectSeq(fuels, LAMBDA f : f.fuel_type \in low_carbon_types)))
    IN [status |-> 200,
        settlement_period |-> max_sp,
        total_mw |-> Round(total, Half),
        renewable_mw |-> renewable_mw,
        renewable_pct |-> Percentage(renewable_mw, total),
        low_carbon_mw |-> low_carbon_mw,
        low_carbon_pct |-> Percentage(low_carbon_mw, total),
        fuels |-> fuels]

\* GET /api/fuel-mix/latest on a miss, once the upstream has answered with
\* the dataset: the handler derives the result.
FuelMixLatest ==
  /\ calc.kind = "fuel"
  /\ ~calc.done
  /\ calc' = [calc EXCEPT !.done = TRUE, !.out = FuelMix(calc.in)]
  /\ UNCHANGED <<cache, lock, now, th, nreq, ticks, lastw, lim>>

InitFuel ==
  /\ Idle
  /\ lim = [threads |-> {}, requests |-> 0, ticks |-> 0, outs |-> {}, sumouts |-> {},
            steps |-> TickSteps]
  /\ \E d \in Snapshots : calc = [kind |-> "fuel", in |-> d, done |-> FALSE, out |-> d]

NextFuel == FuelMixLatest

\* One derivation of the fuel mix from any dataset.
SpecFuel == InitFuel /\ [][NextFuel]_vars

\* ------------------------------------------------------------------ progress

\* Any step of thread t inside a request it has started.
Step(t) ==
  \/ GetAcquire(t) \/ GetBody(t) \/ Fetch(t) \/ SumFetch(t)
  \/ SetAcquire(t) \/ SetStore(t)
  \/ StatsAcquire(t) \/ StatsBody(t) \/ StatsLen(t)
  \/ ClearAcquire(t) \/ ClearBody(t)

InitLive ==
  /\ Start
  /\ lim = [threads |-> Threads, requests |-> MaxLiveRequests, ticks |-> 0,
            outs |-> {"net", "records"}, sumouts |-> {"records"},
            steps |-> TickSteps]

\* Two threads serving concurrently under a fair scheduler: a thread that
\* can take a step of its request eventually takes one.  Every fetch ends,
\* by an answer or by an error (timeout=15 bounds it).
SpecLive == InitLive /\ [][Next]_vars /\ \A t \in Threads : WF_vars(Step(t))

\* ------------------------------------------------------------------ properties

\* Thread t returns from cache_get in this step.
GetReturns(t) == th[t].pc = "get_cs" /\ th'[t].pc # "get_cs"

\* Thread t completes a cache_set in this step.
SetReturns(t) == th[t].pc = "set_cs" /\ th'[t].pc # "set_cs"

\* Thread t runs the body of api_cache_clear in this step.
ClearReturns(t) == th[t].pc = "clear_cs" /\ th'[t].pc # "clear_cs"

\* C1. Freshness: whenever cache_get(k) returns at clock reading now, it
\* returns the stored value if and only if an entry for k exists and
\* now < stored_at + ttl of that entry (ttl being what cache_set was called
\* with); otherwise it returns absent, the entry staying in the store.
C1_Freshness ==
  [][\A t \in Threads :
       GetReturns(t) =>
         LET k == th[t].key
             fresh == k \in DOMAIN cache /\ now' < cache[k].stored + lastw[k].ttl
         IN /\ (th'[t].cached # None) <=> fresh
            /\ fresh => th'[t].cached = cache[k].data
            /\ cache' = cache]_vars

\* C2. Last writer wins: every entry in the store is the complete entry the
\* last completed cache_set on its key built (its value, its "stored" and
\* its "expires", the latter being that call's second clock reading plus
\* that call's ttl), and what cache_get returns is that call's value, judged
\* fresh by that call's expiry alone.
C2_EntryIsLastSet ==
  \A k \in DOMAIN cache :
    /\ k \in DOMAIN lastw
    /\ cache[k] = Entry(lastw[k].data, lastw[k].stored, lastw[k].read + lastw[k].ttl)

C3_ClearSemantics ==
  [][\A t \in Threads :
       ClearReturns(t) =>
         LET a == th[t].args
             k == ArgGet(a, "key", <<>>)
             r == th'[t].resp
         IN /\ (HasArg(a, "key") /\ k \notin DOMAIN cache) =>
                 (r.found = "false" /\ cache' = cache)
            /\ (HasArg(a, "key") /\ k \in DOMAIN cache) => r.found = "true"
            /\ ~HasArg(a, "key") =>
                 (cache' = EmptyCache /\ r.count = Cardinality(DOMAIN cache))]_vars

\* Thread t has answered a summary request it had to compute.
SummaryDone(t) ==
  th[t].ep = "summary" /\ th[t].pc = "done" /\ th[t].resp.cache = "miss"

\* The sub-operations of t's summary whose outcome was of this class.
Names(t, class) ==
  {SummaryOps[i] : i \in {j \in DOMAIN th[t].subs : th[t].subs[j] = class}}

AllOps == {SummaryOps[i] : i \in DOMAIN SummaryOps}

\* C4. Summary partial-failure isolation: whichever sub-operations' upstream
\* fetches fail, all five run; every one that succeeded is a field of the
\* result and not in the errors map, every one whose fetch failed is in the
\* errors map and not a field; settlement_period is always there; the errors
\* map is attached if and only if it is not empty, and when each sub-operation
\* either succeeded or had its fetch fail it holds exactly the failed names;
\* and the result is stored under the summary key with a 60-second TTL.
C4_SummaryIsolation ==
  \A t \in Threads :
    SummaryDone(t) =>
      LET b == th[t].resp.body
          ok == Names(t, "success")
          failed == Names(t, "upstream")
          k == <<"summary">>
      IN /\ th[t].resp.status = 200
         /\ Len(th[t].subs) = Len(SummaryOps)
         /\ "settlement_period" \in b.fields
         /\ ok \subseteq b.fields /\ ok \cap DOMAIN b.errors = {}
         /\ failed \subseteq DOMAIN b.errors /\ failed \cap b.fields = {}
         /\ ("_errors" \in b.fields) <=> (DOMAIN b.errors # {})
         /\ (ok \cup failed = AllOps) =>
              /\ DOMAIN b.errors = failed
              /\ ("_errors" \in b.fields) <=> (failed # {})
         /\ th[t].key = k
         /\ k \in DOMAIN cache
         /\ cache[k].data = b
         /\ lastw[k].ttl = TTL_summary
         /\ cache[k].expires = lastw[k].read + TTL_summary

\* The price fetch failed, the other four succeeded, and the result was
\* stored with the four fields and the errors map.
C4_Witness ==
  \E t \in Threads :
    /\ SummaryDone(t)
    /\ Names(t, "upstream") = {"price"}
    /\ Names(t, "success") = AllOps \ {"price"}
    /\ th[t].resp.body.fields =
         {"settlement_period", "_errors"} \cup (AllOps \ {"price"})
    /\ DOMAIN th[t].resp.body.errors = {"price"}
    /\ cache[<<"summary">>].data = th[t].resp.body

\* C5. Summary failure accounting: whatever the outcomes of the five
\* sub-operations (success, upstream error, missing data, malformed record),
\* each name is in exactly one place of the result: a field when it
\* succeeded, a key of the errors map when it did not.
C5_FailureAccounting ==
  \A t \in Threads :
    SummaryDone(t) =>
      LET b == th[t].resp.body
      IN \A i \in DOMAIN SummaryOps :
           LET op == SummaryOps[i]
           IN /\ (op \in b.fields) # (op \in DOMAIN b.errors)
              /\ (op \in b.fields) <=> (th[t].subs[i] = "success")

\* Thread t has answered a request of an endpoint whose one upstream fetch
\* decides its response, after making that fetch.
Fetched(t) ==
  /\ th[t].pc = "done"
  /\ th[t].ep \in FetchEndpoints \ {"summary"}
  /\ th[t].out # "none"

\* C6. Error status mapping: on the endpoints that propagate an upstream
\* failure as their response, an upstream non-success HTTP status gives 502,
\* a request that cannot be completed gives 503, and on the derived
\* endpoints an empty dataset gives 404.
C6_ErrorStatus ==
  \A t \in Threads :
    Fetched(t) =>
      /\ th[t].out = "http" => th[t].resp.status = 502
      /\ th[t].out = "net" => th[t].resp.status = 503
      /\ (th[t].ep \in DerivedEndpoints /\ th[t].out \in {"nodata", "emptyobj"}) =>
           th[t].resp.status = 404

\* C7. No stale fallback: a request that found no fresh entry and whose
\* upstream fetch failed answers with an error that carries no value; a
\* response computed on a miss carries the value of this request's own
\* fetch; and cache_get hands out an entry only while it is unexpired.
C7_ErrorOnFailure ==
  \A t \in Threads :
    /\ (Fetched(t) /\ th[t].out \in {"http", "net"}) =>
         (th[t].resp.status \in {502, 503} /\ th[t].resp.body = None
            /\ th[t].resp.cache = "none")
    /\ (th[t].pc = "done" /\ th[t].resp.cache = "miss") =>
         th[t].resp.body.id = th[t].id

C7_NoStaleFallback ==
  [][/\ C7_ErrorOnFailure'
     /\ \A t \in Threads :
          (GetReturns(t) /\ th'[t].cached # None) =>
            /\ th[t].key \in DOMAIN cache
            /\ now' < cache[th[t].key].expires
            /\ th'[t].cached = cache[th[t].key].data]_vars

\* An entry has expired and is still in the store; the request for its key
\* missed, its fetch failed, and it answered with an error.
C7_Witness ==
  \E t \in Threads :
    /\ Fetched(t)
    /\ th[t].out \in {"http", "net"}
    /\ th[t].key \in DOMAIN cache
    /\ now >= cache[th[t].key].expires
    /\ th[t].resp.status \in {502, 503}

\* Thread t has derived the key of a request.
Keyed(t) == th[t].pc = "keyed"

Query(t) == UpstreamQuery(th[t].ep, th[t].args, th[t].path, th[t].params)

\* The two requests are the same logical query: one endpoint, one upstream
\* path, one set of parameter values.
SameQuery(t, u) == th[t].ep = th[u].ep /\ Query(t) = Query(u)

\* C8. Cache-key collision freedom: two requests whose logical queries
\* differ (in endpoint, upstream path or a parameter value, the values being
\* arbitrary strings) get different cache keys.
C8_NoCollision ==
  \A t \in Threads : \A u \in Threads :
    (Keyed(t) /\ Keyed(u) /\ ~SameQuery(t, u)) => th[t].key # th[u].key

\* C9. Cache-key determinism: two requests with the same logical query get
\* the same cache key; for the raw passthrough, the same parameters on the
\* same path in any order give one key.
C9_Determinism ==
  \A t \in Threads : \A u \in Threads :
    (Keyed(t) /\ Keyed(u) /\ SameQuery(t, u)) => th[t].key = th[u].key

\* Two raw requests on one path carry the same two parameters in different
\* orders and got the same key.
C9_Witness ==
  \E t \in Threads : \E u \in Threads :
    /\ Keyed(t) /\ Keyed(u)
    /\ th[t].ep = "raw" /\ th[u].ep = "raw"
    /\ Len(th[t].params) = 2
    /\ th[t].params # th[u].params
    /\ SameQuery(t, u)
    /\ th[t].key = th[u].key

\* C10. Lock scope: no request is in an upstream fetch while it holds the
\* cache lock; whoever holds the lock is inside cache_get, cache_set,
\* cache_stats or the body of the clear handler.
C10_LockScope ==
  /\ \A t \in Threads : th[t].pc \in {"fetch", "sum_fetch"} => lock # t
  /\ lock # Free =>
       (lock \in Threads
          /\ th[lock].pc \in {"get_cs", "set_cs", "stats_cs", "clear_cs"})

\* One request is in its upstream fetch while another holds the lock.
C10_Witness ==
  \E t \in Threads : \E u \in Threads \ {t} :
    th[t].pc \in {"fetch", "sum_fetch"} /\ lock = u

\* Seconds from midnight of the day of the request.
Seconds(dt) == ((dt.day * 24 + dt.hour) * 60 + dt.minute) * 60 + dt.second

\* The settlement-period handler has answered.
ClockDone == calc.kind = "clock" /\ calc.done

\* C11. Settlement clock: at every second of the UTC day the period is
\* floor(minutes since midnight / 30) + 1 and lies in 1..48; period_start is
\* (period - 1) * 30 minutes after midnight of the same date, period_end is
\* 30 minutes later, and start <= now < end; next_sp is period + 1, with 48
\* wrapping to 1.  At 00:00:00: period 1, 00:00 to 00:30, next 2; at
\* 23:59:59: period 48, next 1.
C11_SettlementClock ==
  ClockDone =>
    LET w == calc.in
        r == calc.out
        sp == r.settlement_period
    IN /\ sp = (w.hour * 60 + w.minute) \div 30 + 1
       /\ sp \in 1..48
       /\ r.settlement_date = w.day
       /\ r.period_start_utc.day = w.day
       /\ Seconds(r.period_start_utc) = Seconds(Datetime(w.day, 0, 0, 0)) + (sp - 1) * 30 * 60
       /\ Seconds(r.period_end_utc) = Seconds(r.period_start_utc) + 30 * 60
       /\ Seconds(r.period_start_utc) <= Seconds(w)
       /\ Seconds(w) < Seconds(r.period_end_utc)
       /\ r.next_sp = (IF sp = 48 THEN 1 ELSE sp + 1)
       /\ w = Datetime(0, 0, 0, 0) =>
            /\ sp = 1 /\ r.next_sp = 2
            /\ r.period_start_utc = Datetime(0, 0, 0, 0)
            /\ r.period_end_utc = Datetime(0, 0, 30, 0)
       /\ w = Datetime(0, 23, 59, 59) => (sp = 48 /\ r.next_sp = 1)

\* The handler answered at 23:59:59: the last period, which ends at
\* midnight of the next day and is followed by period 1.
C11_Witness ==
  /\ ClockDone
  /\ calc.in = Datetime(0, 23, 59, 59)
  /\ calc.out.settlement_period = 48
  /\ calc.out.next_sp = 1
  /\ calc.out.period_end_utc = Datetime(1, 0, 0, 0)

\* The fuel-mix handler has derived a result from a dataset with records.
FuelDone == calc.kind = "fuel" /\ calc.done /\ calc.out.status = 200

\* The records of the latest period in the dataset the handler was given.
Snapshot == Latest(calc.in)

\* How many elements of s satisfy Test.
Count(s, Test(_)) == Cardinality({i \in DOMAIN s : Test(s[i])})

\* p is x / total * 100 to the nearest tenth (p in tenths of a percent, x
\* in megawatts, total in half megawatts), or 0 when total is 0.
IsPercentage(p, x, total) ==
  IF total = 0 THEN p = 0
  ELSE 2 * Abs(p * total - x * 100 * 10 * Half) <= Abs(total)

\* The sums and percentages of the result agree with its listing and with
\* the total over the whole snapshot.
FuelTotalsDerived ==
  LET r == calc.out
      total == SumSeq(Map(Output, Snapshot))
      sumOver(types) ==
        SumSeq(Map(MwOf, SelectSeq(r.fuels, LAMBDA f : f.fuel_type \in types)))
  IN /\ \A i \in DOMAIN r.fuels : IsPercentage(r.fuels[i].percentage, r.fuels[i].mw, total)
     /\ r.renewable_mw = sumOver({"WIND", "SOLAR", "NPSHYD", "HYDRO", "BIOMASS"})
     /\ r.low_carbon_mw = sumOver({"WIND", "SOLAR", "NPSHYD", "HYDRO", "BIOMASS", "NUCLEAR"})
     /\ IsPercentage(r.renewable_pct, r.renewable_mw, total)
     /\ IsPercentage(r.low_carbon_pct, r.low_carbon_mw, total)
     /\ total = 0 =>
          /\ \A i \in DOMAIN r.fuels : r.fuels[i].percentage = 0
          /\ r.renewable_pct = 0 /\ r.low_carbon_pct = 0

\* The documented example: [{WIND, 600}, {CCGT, 400}] gives 60.0 and 40.0,
\* renewable_mw 600 and renewable_pct 60.0.
FuelExample ==
  \A k1 \in {"generation", "quantity"} : \A k2 \in {"generation", "quantity"} :
    calc.in = <<FuelRecord(1, "WIND", k1, 600 * Half), FuelRecord(1, "CCGT", k2, 400 * Half)>> =>
      /\ {<<calc.out.fuels[i].fuel_type, calc.out.fuels[i].mw, calc.out.fuels[i].percentage>> :
            i \in DOMAIN calc.out.fuels}
           = {<<"WIND", 600, 600>>, <<"CCGT", 400, 400>>}
      /\ Len(calc.out.fuels) = 2
      /\ calc.out.renewable_mw = 600
      /\ calc.out.renewable_pct = 600
      /\ calc.out.total_mw = 1000

\* The whole megawatts next to an output of the snapshot, and those listed.
MwCandidates ==
  {calc.out.fuels[i].mw : i \in DOMAIN calc.out.fuels}
    \cup UNION {{Output(Snapshot[i]) \div Half, Output(Snapshot[i]) \div Half + 1} :
                  i \in DOMAIN Snapshot}

\* C12 as stated. Fuel-mix derivation: the listing holds exactly the records
\* of the snapshot that have a fuel type and positive output; each listed
\* percentage is mw / total_mw * 100 to one decimal, total_mw being the sum
\* over the whole snapshot; renewable_mw and low_carbon_mw are the sums of
\* listed mw over the two fixed sets; with total_mw 0 every percentage is 0.
C12_FuelMixAsStated ==
  FuelDone =>
    /\ \A ft \in FuelTypes :
         Count(calc.out.fuels, LAMBDA f : f.fuel_type = ft)
           = Count(Snapshot, LAMBDA d : d.fuelType = ft /\ ft # "" /\ Output(d) > 0)
    /\ FuelTotalsDerived
    /\ FuelExample

\* C12 as amended. The listing holds exactly the records of the snapshot
\* that have a fuel type and whose output rounded to whole megawatts is
\* positive, each with that rounded output as its mw; percentages, sums and
\* the zero-total case as stated, the total being the unrounded sum.
C12_FuelMix ==
  FuelDone =>
    /\ \A ft \in FuelTypes : \A x \in MwCandidates :
         Count(calc.out.fuels, LAMBDA f : f.fuel_type = ft /\ f.mw = x)
           = Count(Snapshot, LAMBDA d : d.fuelType = ft /\ ft # "" /\ x > 0
                                          /\ 2 * Abs(Half * x - Output(d)) <= Half
                                          /\ (2 * Abs(Half * x - Output(d)) = Half => x % 2 = 0))
    /\ \A i \in DOMAIN calc.out.fuels : calc.out.fuels[i].fuel_type \in FuelTypes \ {""}
    /\ FuelTotalsDerived
    /\ FuelExample

\* The documented example was derived.
C12_Witness ==
  /\ FuelDone
  /\ calc.in = <<FuelRecord(1, "WIND", "generation", 600 * Half),
                 FuelRecord(1, "CCGT", "generation", 400 * Half)>>
  /\ Len(calc.out.fuels) = 2
  /\ calc.out.fuels[1].percentage = 600
  /\ calc.out.fuels[2].percentage = 400
  /\ calc.out.renewable_pct = 600

\* The TTL class of the endpoint that writes under key k, by the key's prefix.
TTLClass(k) ==
  CASE Head(k) \in {"generation", "generation_latest", "fuel_mix_latest",
                    "demand", "price", "imbalance"} -> 600
    [] Head(k) \in {"frequency", "summary"} -> 60
    [] Head(k) = "raw" -> 300
    [] OTHER -> 0

\* C13. TTL class per endpoint: every entry in the cache has
\* expires - stored equal to the TTL of the endpoint that wrote it (600 s for
\* generation, generation/latest, fuel-mix/latest, demand, price, imbalance;
\* 60 s for frequency and summary; 300 s for raw), and an entry's stored and
\* expires change only by a cache_set on its own key.
C13_TTLClass ==
  [][/\ \A k \in DOMAIN cache' : cache'[k].expires - cache'[k].stored = TTLClass(k)
     /\ \A k \in DOMAIN cache \cap DOMAIN cache' :
          (cache'[k].stored # cache[k].stored \/ cache'[k].expires # cache[k].expires) =>
            \E t \in Threads : SetReturns(t) /\ th[t].key = k]_vars

\* C14. Served from cache means no upstream call: whatever value is stored,
\* a request that consults the cache while a fresh entry for its key exists
\* makes no upstream fetch and answers with _cache = "hit"; a request goes on
\* to fetch only when cache_get returned absent.
C14_HitMeansNoFetch ==
  [][\A t \in Threads :
       GetReturns(t) =>
         LET k == th[t].key
             r == th'[t]
         IN /\ (k \in DOMAIN cache /\ now' < cache[k].expires) =>
                 /\ r.pc = "done"
                 /\ r.resp.cache = "hit"
                 /\ r.resp.body = cache[k].data
            /\ r.pc \in {"fetch", "sum_fetch"} =>
                 (k \notin DOMAIN cache \/ now' >= cache[k].expires)]_vars

\* C15. Keyed clear is local: a clear request that carries a key parameter,
\* whatever string its value is, removes at most the entry stored under
\* exactly that key and leaves every other entry as it was.
C15_KeyedClearLocal ==
  [][\A t \in Threads :
       (ClearReturns(t) /\ HasArg(th[t].args, "key")) =>
         \A k \in DOMAIN cache \ {ArgGet(th[t].args, "key", <<>>)} :
           k \in DOMAIN cache' /\ cache'[k] = cache[k]]_vars

\* Thread t runs the body of cache_stats in this step.
StatsReturns(t) == th[t].pc = "stats_cs" /\ th'[t].pc # "stats_cs"

\* C16. No sweep, no eviction on read: cache_get and cache_stats leave every
\* entry as it is; the store changes only by a cache_set or a clear; and
\* cache_stats reports every entry in the store, an expired one with
\* remaining time 0.
C16_NoSweep ==
  [][/\ \A t \in Threads : (GetReturns(t) \/ StatsReturns(t)) => cache' = cache
     /\ cache' # cache => \E t \in Threads : SetReturns(t) \/ ClearReturns(t)
     /\ \A t \in Threads :
          StatsReturns(t) =>
            LET s == th'[t].resp.stats
            IN /\ DOMAIN s = DOMAIN cache
               /\ \A k \in DOMAIN cache :
                    /\ s[k].cached_at = cache[k].stored
                    /\ now' >= cache[k].expires => s[k].expires_in = 0
                    /\ now' < cache[k].expires => s[k].expires_in = cache[k].expires - now']_vars

\* A stats response that reports an entry with no time left, the entry
\* being still in the store.
C16_Witness ==
  \E t \in Threads :
    /\ th[t].pc = "done"
    /\ th[t].resp.total_keys >= 1
    /\ \E k \in DOMAIN th[t].resp.stats :
         /\ th[t].resp.stats[k].expires_in = 0
         /\ k \in DOMAIN cache
         /\ now >= cache[k].expires

\* C17. Fuel-mix ordering: for every snapshot the deriver accepts, each
\* record carrying its output under "generation" or under "quantity", the
\* listed fuels are in non-increasing order of mw.
C17_FuelOrder ==
  FuelDone =>
    \A i \in DOMAIN calc.out.fuels : \A j \in DOMAIN calc.out.fuels :
      i < j => calc.out.fuels[i].mw >= calc.out.fuels[j].mw

\* Thread t is inside a request it has not answered yet.
Serving(t) == th[t].pc \notin {"idle", "done", "keyed"}

\* C18. No indefinite suspension: under fair scheduling, with every fetch
\* returning or failing, every request that was started is eventually
\* answered, and every thread that holds the cache lock eventually releases
\* it, the keyed clear included.
C18_NoSuspension ==
  \A t \in Threads :
    /\ Serving(t) ~> (th[t].pc = "done")
    /\ (lock = t) ~> (lock # t)

\* One thread is inside the keyed clear, holding the lock, while the other
\* waits for it.
C18_Witness ==
  \E t \in Threads : \E u \in Threads \ {t} :
    /\ th[u].pc = "clear_cs" /\ lock = u /\ ClearIsKeyed(th[u].args)
    /\ th[t].pc \in {"get_lock", "set_lock", "stats_lock", "clear_lock"}

\* C19. Stats response consistency: in every cache/stats response,
\* total_keys is the number of keys of the cache mapping in the same
\* response, whatever set and clear requests run concurrently.
C19_StatsConsistent ==
  \A t \in Threads :
    (th[t].pc = "done" /\ th[t].ep = "cache_stats") =>
      th[t].resp.total_keys = Cardinality(DOMAIN th[t].resp.stats)

\* Thread t answers its request in this step.
Answers(t) == th[t].pc # "done" /\ th'[t].pc = "done"

\* C20. Errors are not cached: on every endpoint other than summary and for
\* every upstream outcome, a request that ends with a 4xx or 5xx response
\* leaves the cache as it was.  The requests run one at a time, and cache_get
\* changes nothing, so the cache is as it was before the request exactly when
\* the step that answers it is no cache_set and changes no entry.
C20_ErrorsNotCached ==
  [][\A t \in Threads :
       (Answers(t) /\ th[t].ep \in FetchEndpoints \ {"summary"}
          /\ th'[t].resp.status >= 400) =>
         (cache' = cache /\ ~SetReturns(t))]_vars

\* Every output of the snapshot is a whole number of megawatts.
WholeMegawatts == \A i \in DOMAIN Snapshot : Output(Snapshot[i]) % Half = 0

\* C21. Fuel-mix bounds: for every snapshot whose outputs are integers,
\* negative ones included, the result has
\* renewable_mw <= low_carbon_mw <= total_mw and
\* 0 <= renewable_pct <= low_carbon_pct <= 100, and every listed per-fuel
\* percentage lies in [0, 100].  Percentages are in tenths of a percent.
C21_FuelBounds ==
  (FuelDone /\ WholeMegawatts) =>
    LET r == calc.out
    IN /\ r.renewable_mw <= r.low_carbon_mw
       /\ r.low_carbon_mw <= r.total_mw
       /\ 0 <= r.renewable_pct
       /\ r.renewable_pct <= r.low_carbon_pct
       /\ r.low_carbon_pct <= 100 * 10
       /\ \A i \in DOMAIN r.fuels :
            r.fuels[i].percentage >= 0 /\ r.fuels[i].percentage <= 100 * 10

====
